---- MODULE Spec2Model ----
(***************************************************************************)
(* Notes and annotations of odfdo (src/odfdo/note.py): the name allocator  *)
(* get_unique_office_name, Note, Annotation and AnnotationEnd, over a      *)
(* small document tree (a body holding paragraphs, paragraphs holding      *)
(* annotation markers in document order).                                  *)
(***************************************************************************)
EXTENDS Integers, Sequences, FiniteSets, TLC

\* ------------------------------------------------------------- bounds
MaxNodes == 3       \* marker objects (Annotation / AnnotationEnd) ever built
MaxMarkers == 2     \* markers built where delete and get_annotated are exercised
MaxStaged == 2      \* markers already in the tree when the allocator is probed
MaxCalls == 3       \* consecutive allocator calls recorded

\* ------------------------------------------------------------- values
NoNode == 0                      \* Python None where an element is expected
None == "<None>"                 \* Python None where a str is expected
NodeIds == 1..MaxNodes
Paras == {"P1", "P2"}            \* two paragraphs; parents of the markers
Threads == {1, 2}

VARIABLES
  kind,        \* kind[n]: "free" (not built), "ann" (Annotation), "end" (AnnotationEnd)
  name,        \* name[n]: the office:name attribute, None when absent
  kids,        \* kids[n]: the child elements of an annotation (its content)
  built_from,  \* built_from[n]: the annotation an end was constructed from
  children,    \* children[p]: the markers of paragraph p, in document order
  bodyParas,   \* the paragraphs of the document body, in document order
  ret,         \* the last call: operation, arguments, returned value / raised error
  note,        \* one Note: note_class, note_id, citation, note_body
  calls,       \* the allocator calls made against the (fixed) tree
  pc,          \* pc[t]: position of mutator t in allocate-and-insert
  mine,        \* mine[t]: the annotation mutator t has built
  lock,        \* holder of the per-document lock, 0 when free
  locking      \* whether the mutators take the per-document lock

treeVars == <<kind, name, kids, built_from, children, bodyParas>>
mutVars == <<pc, mine, lock, locking>>
vars == <<kind, name, kids, built_from, children, bodyParas, ret, note, calls,
          pc, mine, lock, locking>>

\* ------------------------------------------------------------- helpers
Range(s) == {s[i] : i \in DOMAIN s}

\* Python truth value of a str-or-None: `not v`
Falsy(v) == v = None \/ v = ""

InsertAt(s, pos, x) == SubSeq(s, 1, pos - 1) \o <<x>> \o SubSeq(s, pos, Len(s))

\* ------------------------------------------------------------- the tree
\* (element.py is not part of src/: these follow the interface of spec.md, section 6)

RECURSIVE ConcatParas(_)
ConcatParas(ps) ==
  IF ps = <<>> THEN <<>> ELSE children[Head(ps)] \o ConcatParas(Tail(ps))

\* the descendants of a scope in document order; a scope is "body" or a paragraph
Descendants(scope) ==
  IF scope = "body" THEN ConcatParas(bodyParas) ELSE children[scope]

\* Element.parent of a marker: its paragraph, None when detached
node_parent(n) ==
  IF \E p \in Paras : n \in Range(children[p])
  THEN CHOOSE p \in Paras : n \in Range(children[p])
  ELSE None

\* Element.document_body of a paragraph
para_document_body(p) == IF p \in Range(bodyParas) THEN "body" ELSE None

\* Element.document_body of a marker
node_document_body(n) ==
  IF node_parent(n) = None THEN None ELSE para_document_body(node_parent(n))

RECURSIVE NamesOf(_)
NamesOf(s) ==
  IF s = <<>> THEN <<>>
  ELSE (IF name[Head(s)] = None THEN <<>> ELSE <<name[Head(s)]>>) \o NamesOf(Tail(s))

\* Element.get_office_names(): the names assigned under the scope
get_office_names(scope) == NamesOf(Descendants(scope))

FirstOf(s, k, nm) ==
  LET hits == {i \in DOMAIN s : kind[s[i]] = k /\ name[s[i]] = nm}
  IN IF hits = {} THEN NoNode
     ELSE s[CHOOSE i \in hits : \A j \in hits : i <= j]

\* Element.get_annotation_end(name=...): first end of that name in the scope
get_annotation_end(scope, nm) == FirstOf(Descendants(scope), "end", nm)

\* Element.get_annotation(name=...): first annotation of that name in the scope
get_annotation(scope, nm) == FirstOf(Descendants(scope), "ann", nm)

\* Element.delete() of an attached element: it leaves its parent
Element_delete(ch, n) ==
  [p \in Paras |-> SelectSeq(ch[p], LAMBDA x : x # n)]

\* a deleted element is an orphan; its holders drop it and it is not used again
Dropped(f, ns, v) == [n \in NodeIds |-> IF n \in ns THEN v ELSE f[n]]

\* ------------------------------------------------------------- the allocator
AutoName(i) == "__Fieldmark__lpod_" \o ToString(i)

\* Probe with the counter advanced by two on a collision
RECURSIVE Probe_stride(_, _)
Probe_stride(used, i) ==
  IF AutoName(i) \in Range(used) THEN Probe_stride(used, i + 2) ELSE AutoName(i)

\* the loop of get_unique_office_name: i = 1; while name in used: i += 1
RECURSIVE Probe(_, _)
Probe(used, i) ==
  IF AutoName(i) \in Range(used) THEN Probe(used, i + 1) ELSE AutoName(i)

\* UsedNames without `used.extend(element.get_office_names())`
UsedNames_body_only(element) ==
  LET body == IF element # None THEN para_document_body(element) ELSE None
  IN IF body # None THEN get_office_names(body) ELSE <<>>

\* UsedNames without the names of the document body
UsedNames_own_only(element) ==
  IF element # None THEN get_office_names(element) ELSE <<>>

\* the list `used` built by get_unique_office_name(element);
\* element is None or a paragraph
UsedNames(element) ==
  LET body == IF element # None THEN para_document_body(element) ELSE None
      used == IF body # None THEN get_office_names(body) ELSE <<>>
  IN IF element # None THEN used \o get_office_names(element) ELSE used

get_unique_office_name(element) == Probe(UsedNames(element), 1)

\* ------------------------------------------------------------- calls
NoRet == [op |-> "", node |-> NoNode, arg |-> None, from |-> NoNode,
          parent |-> None, as_text |-> FALSE, val |-> None, called |-> <<>>]

NextFree == CHOOSE n \in NodeIds : kind[n] = "free" /\ \A m \in NodeIds : kind[m] = "free" => n <= m

\* an Element given as content, and the text_content it has
ContentElement == "<text:p>text</text:p>"
text_content(v) == IF v = ContentElement THEN "text" ELSE v

TextArgs == {None, "text", ContentElement}
NameArgs == {None, "", "note_a"}
EndNameArgs == NameArgs \cup {AutoName(1)}
ParentArgs == {None} \cup Paras

\* ------------------------------------------------------------- Annotation

\* Annotation_name with the parent not handed to the allocator
Annotation_name_no_parent(nm, parent) ==
  IF Falsy(nm) THEN get_unique_office_name(None) ELSE None

\* the office:name attribute after Annotation.__init__(name=nm, parent=parent):
\* it is assigned only inside `if not name:`
Annotation_name(nm, parent) ==
  IF Falsy(nm) THEN get_unique_office_name(parent) ELSE None

\* Annotation(text_or_element, creator, date, name, parent): a str or an Element
\* becomes the content, anything else is refused; the creator and the date are
\* attributes no operation below reads
Annotation_init(text_or_element, nm, parent) ==
  /\ \E n \in NodeIds : kind[n] = "free"
  /\ LET n == NextFree IN
     IF text_or_element = None
     THEN \* note_body setter: raise TypeError('expected unicode or Element')
          /\ ret' = [NoRet EXCEPT !.op = "Annotation", !.val = "TypeError"]
          /\ UNCHANGED treeVars
     ELSE /\ kind' = [kind EXCEPT ![n] = "ann"]
          /\ kids' = [kids EXCEPT ![n] = {"content"}]
          /\ name' = [name EXCEPT ![n] = Annotation_name(nm, parent)]
          /\ ret' = [NoRet EXCEPT !.op = "Annotation", !.node = n, !.arg = nm,
                                   !.parent = parent]
          /\ UNCHANGED <<built_from, children, bodyParas>>
  /\ UNCHANGED <<note, calls, mutVars>>

\* Annotation_scope that never looks beyond the parent
Annotation_scope_parent_only(n) == node_parent(n)

\* Annotation.end searches the body, or the parent when there is no body
Annotation_scope(n) ==
  IF node_document_body(n) # None THEN node_document_body(n) ELSE node_parent(n)

\* Annotation.end of an attached annotation: the end, or None (NoNode); on a
\* detached one it raises ValueError, which the callers below signal
Annotation_end(n) == get_annotation_end(Annotation_scope(n), name[n])

\* get_annotated that takes a missing end for the end of the document
Annotation_get_annotated_to_document_end(n, as_text, no_header, clean) ==
  /\ kind[n] = "ann"
  /\ LET r == [NoRet EXCEPT !.op = "get_annotated", !.node = n, !.as_text = as_text] IN
     IF node_parent(n) = None
     THEN ret' = [r EXCEPT !.val = "ValueError"]
     ELSE ret' = [r EXCEPT !.val = "<between>", !.from = Annotation_end(n),
                           !.called = <<"get_between", as_text, no_header, clean>>]
  /\ UNCHANGED <<treeVars, note, calls, mutVars>>

\* Annotation.get_annotated(as_text, no_header, clean)
Annotation_get_annotated(n, as_text, no_header, clean) ==
  /\ kind[n] = "ann"
  /\ LET r == [NoRet EXCEPT !.op = "get_annotated", !.node = n, !.as_text = as_text] IN
     IF node_parent(n) = None
     THEN \* self.end raises ValueError("Can not find end tag: no parent available.")
          ret' = [r EXCEPT !.val = "ValueError"]
     ELSE IF Annotation_end(n) = NoNode
     THEN ret' = [r EXCEPT !.val = IF as_text THEN "" ELSE None]
     ELSE \* body.get_between(self, end, as_text=, no_header=, clean=): the call is
          \* recorded, its result is the collaborator's
          ret' = [r EXCEPT !.val = "<between>", !.from = Annotation_end(n),
                           !.called = <<"get_between", as_text, no_header, clean>>]
  /\ UNCHANGED <<treeVars, note, calls, mutVars>>

\* Annotation_delete_set without the cascade onto the end
Annotation_delete_set_no_cascade(n) == {n}

\* the elements Annotation.delete() removes: `if end: end.delete()`, then self
Annotation_delete_set(n) ==
  (IF Annotation_end(n) # NoNode THEN {Annotation_end(n)} ELSE {}) \cup {n}

RECURSIVE DeleteAll(_, _)
DeleteAll(ch, ns) ==
  IF ns = {} THEN ch
  ELSE LET n == CHOOSE x \in ns : TRUE IN DeleteAll(Element_delete(ch, n), ns \ {n})

\* Annotation.delete() with no child
Annotation_delete(n) ==
  /\ kind[n] = "ann"
  /\ IF node_parent(n) = None
     THEN \* self.end raises ValueError("Can not find end tag: no parent available.")
          /\ ret' = [NoRet EXCEPT !.op = "delete", !.node = n, !.val = "ValueError"]
          /\ UNCHANGED <<kind, name, kids, built_from, children>>
     ELSE /\ children' = DeleteAll(children, Annotation_delete_set(n))
          /\ kind' = Dropped(kind, Annotation_delete_set(n), "deleted")
          /\ name' = Dropped(name, Annotation_delete_set(n), None)
          /\ kids' = Dropped(kids, Annotation_delete_set(n), {})
          /\ built_from' = Dropped(built_from, Annotation_delete_set(n), NoNode)
          /\ ret' = [NoRet EXCEPT !.op = "delete", !.node = n, !.from = Annotation_end(n)]
  /\ UNCHANGED <<bodyParas, note, calls, mutVars>>

\* Annotation.delete(child): the ordinary Element.delete(child)
Annotation_delete_child(n, child) ==
  /\ kind[n] = "ann"
  /\ child \in kids[n]
  /\ kids' = [kids EXCEPT ![n] = @ \ {child}]
  /\ ret' = [NoRet EXCEPT !.op = "delete_child", !.node = n, !.arg = child]
  /\ UNCHANGED <<kind, name, built_from, children, bodyParas, note, calls, mutVars>>

\* ------------------------------------------------------------- AnnotationEnd

\* the name AnnotationEnd.__init__ settles on: `if annotation: name = annotation.name`
AnnotationEnd_name(annotation, nm) ==
  IF annotation # NoNode THEN name[annotation] ELSE nm

\* AnnotationEnd(annotation, name)
AnnotationEnd_init(annotation, nm) ==
  /\ \E n \in NodeIds : kind[n] = "free"
  /\ annotation # NoNode => kind[annotation] = "ann"
  /\ LET n == NextFree
         r == [NoRet EXCEPT !.op = "AnnotationEnd", !.arg = nm, !.from = annotation] IN
     IF Falsy(AnnotationEnd_name(annotation, nm))
     THEN \* raise ValueError("Annotation-end must have a name")
          /\ ret' = [r EXCEPT !.val = "ValueError"]
          /\ UNCHANGED treeVars
     ELSE /\ kind' = [kind EXCEPT ![n] = "end"]
          /\ name' = [name EXCEPT ![n] = AnnotationEnd_name(annotation, nm)]
          /\ built_from' = [built_from EXCEPT ![n] = annotation]
          /\ ret' = [r EXCEPT !.node = n]
          /\ UNCHANGED <<kids, children, bodyParas>>
  /\ UNCHANGED <<note, calls, mutVars>>

\* AnnotationEnd.start: the body, or the parent when there is no body
AnnotationEnd_start(n) ==
  get_annotation(IF node_document_body(n) # None THEN node_document_body(n)
                 ELSE node_parent(n), name[n])

\* AnnotationEnd.delete(): the inherited Element.delete(), no cascade
AnnotationEnd_delete(n) ==
  /\ kind[n] = "end"
  /\ node_parent(n) # None
  /\ children' = Element_delete(children, n)
  /\ kind' = Dropped(kind, {n}, "deleted")
  /\ name' = Dropped(name, {n}, None)
  /\ built_from' = Dropped(built_from, {n}, NoNode)
  /\ ret' = [NoRet EXCEPT !.op = "delete_end", !.node = n]
  /\ UNCHANGED <<kids, bodyParas, note, calls, mutVars>>

\* ------------------------------------------------------------- tree mutation
\* Element.insert(node, position) / Element.append(node) of a detached marker
Insert(n, p, pos) ==
  /\ kind[n] # "free"
  /\ node_parent(n) = None
  /\ pos \in 1..(Len(children[p]) + 1)
  /\ children' = [children EXCEPT ![p] = InsertAt(@, pos, n)]
  /\ ret' = NoRet
  /\ UNCHANGED <<kind, name, kids, built_from, bodyParas, note, calls, mutVars>>

\* body.append(paragraph) of a paragraph staged outside the document
AppendParagraph(p) ==
  /\ p \notin Range(bodyParas)
  /\ bodyParas' = Append(bodyParas, p)
  /\ ret' = NoRet
  /\ UNCHANGED <<kind, name, kids, built_from, children, note, calls, mutVars>>

\* ------------------------------------------------------------- Note
NoNote == [note_class |-> None, note_id |-> None, citation |-> None, note_body |-> ""]

ClassArgs == {None, "", "footnote", "endnote", "sidenote"}
IdArgs == {None, "", "n1"}
CitationArgs == {None, "", "1"}
BodyArgs == {None, "", "text", ContentElement}

\* Note(note_class, note_id, citation, body): note_class is always assigned, the
\* others only when not None; the two sub-elements start empty
Note_init(note_class, note_id, citation, body) ==
  [note_class |-> note_class,
   note_id |-> IF note_id # None THEN note_id ELSE None,
   citation |-> IF citation # None THEN citation ELSE None,
   note_body |-> IF body # None THEN text_content(body) ELSE ""]

\* Note.check_validity(): the error raised, None when it returns normally
Note_check_validity_result(nt) ==
  IF Falsy(nt.note_class) THEN "ValueError: note class"
  ELSE IF Falsy(nt.note_id) THEN "ValueError: id"
  ELSE IF Falsy(nt.citation) THEN "ValueError: citation"
  ELSE None

Note_check_validity ==
  /\ ret' = [NoRet EXCEPT !.op = "check_validity", !.val = Note_check_validity_result(note)]
  /\ UNCHANGED <<treeVars, note, calls, mutVars>>

\* the setters of note_class and note_id (attribute properties)
Note_set_note_class(v) ==
  /\ note' = [note EXCEPT !.note_class = v]
  /\ ret' = NoRet
  /\ UNCHANGED <<treeVars, calls, mutVars>>

Note_set_note_id(v) ==
  /\ note' = [note EXCEPT !.note_id = v]
  /\ ret' = NoRet
  /\ UNCHANGED <<treeVars, calls, mutVars>>

\* citation.setter
Note_set_citation(text) ==
  /\ note' = [note EXCEPT !.citation = text]
  /\ ret' = NoRet
  /\ UNCHANGED <<treeVars, calls, mutVars>>

\* note_body.setter: a str is stored, an Element replaces the body's content,
\* anything else is refused; the getter returns the body's text_content
Note_set_note_body(text) ==
  /\ IF text = None
     THEN \* raise ValueError('Unexpected type for body')
          /\ ret' = [NoRet EXCEPT !.op = "note_body", !.val = "ValueError"]
          /\ UNCHANGED note
     ELSE /\ note' = [note EXCEPT !.note_body = text_content(text)]
          /\ ret' = NoRet
  /\ UNCHANGED <<treeVars, calls, mutVars>>

\* ------------------------------------------------------------- mutators
\* Two callers that each build an annotation against a paragraph of the body and
\* then append it there; with `locking` they hold the document's lock meanwhile
\* (spec.md, section 5).
NoMine == [node |-> NoNode, parent |-> None]

Acquire(t) ==
  /\ locking
  /\ pc[t] = "idle"
  /\ lock = 0
  /\ lock' = t
  /\ pc' = [pc EXCEPT ![t] = "locked"]
  /\ ret' = NoRet
  /\ UNCHANGED <<treeVars, note, calls, mine, locking>>

Allocate(t, p) ==
  /\ pc[t] = (IF locking THEN "locked" ELSE "idle")
  /\ p \in Range(bodyParas)
  /\ \E n \in NodeIds : kind[n] = "free"
  /\ kind' = [kind EXCEPT ![NextFree] = "ann"]
  /\ kids' = [kids EXCEPT ![NextFree] = {"content"}]
  /\ name' = [name EXCEPT ![NextFree] = Annotation_name(None, p)]
  /\ mine' = [mine EXCEPT ![t] = [node |-> NextFree, parent |-> p]]
  /\ pc' = [pc EXCEPT ![t] = "allocated"]
  /\ ret' = NoRet
  /\ UNCHANGED <<built_from, children, bodyParas, note, calls, lock, locking>>

InsertMine(t) ==
  /\ pc[t] = "allocated"
  /\ children' = [children EXCEPT ![mine[t].parent] = Append(@, mine[t].node)]
  /\ mine' = [mine EXCEPT ![t] = NoMine]
  /\ pc' = [pc EXCEPT ![t] = IF locking THEN "inserted" ELSE "idle"]
  /\ ret' = NoRet
  /\ UNCHANGED <<kind, name, kids, built_from, bodyParas, note, calls, lock, locking>>

Release(t) ==
  /\ pc[t] = "inserted"
  /\ lock = t
  /\ lock' = 0
  /\ pc' = [pc EXCEPT ![t] = "idle"]
  /\ ret' = NoRet
  /\ UNCHANGED <<treeVars, note, calls, mine, locking>>

\* ------------------------------------------------------------- allocator calls
\* get_unique_office_name(element) called against a tree that stays as it is
Allocate_call(element) ==
  /\ Len(calls) < MaxCalls
  /\ calls' = Append(calls, [element |-> element, name |-> get_unique_office_name(element)])
  /\ UNCHANGED <<treeVars, ret, note, mutVars>>

\* ------------------------------------------------------------- specifications
TreeInit ==
  /\ kind = [n \in NodeIds |-> "free"]
  /\ name = [n \in NodeIds |-> None]
  /\ kids = [n \in NodeIds |-> {}]
  /\ built_from = [n \in NodeIds |-> NoNode]
  /\ children = [p \in Paras |-> <<>>]
  /\ bodyParas = <<"P1">>

MutIdle ==
  /\ pc = [t \in Threads |-> "idle"]
  /\ mine = [t \in Threads |-> NoMine]
  /\ lock = 0
  /\ locking = FALSE

\* a new text document with one paragraph in its body and one paragraph staged
Init ==
  /\ TreeInit
  /\ MutIdle
  /\ ret = NoRet
  /\ note = NoNote
  /\ calls = <<>>

Construct ==
  \/ \E t \in TextArgs, nm \in NameArgs, parent \in ParentArgs :
        Annotation_init(t, nm, parent)
  \/ \E a \in {NoNode} \cup NodeIds, nm \in EndNameArgs : AnnotationEnd_init(a, nm)

Place ==
  \/ \E n \in NodeIds, p \in Paras, pos \in 1..MaxNodes : Insert(n, p, pos)
  \/ \E p \in Paras : AppendParagraph(p)

Delete ==
  \/ \E n \in NodeIds : Annotation_delete(n)
  \/ \E n \in NodeIds, c \in {"content"} : Annotation_delete_child(n, c)
  \/ \E n \in NodeIds : AnnotationEnd_delete(n)

Built == {n \in NodeIds : kind[n] # "free"}

\* building, inserting and deleting markers
Next ==
  \/ Construct
  \/ Place
  \/ Delete

Spec == Init /\ [][Next]_vars

\* the same, with at most MaxMarkers markers built
NextDelete ==
  \/ Cardinality(Built) < MaxMarkers /\ Construct
  \/ Place
  \/ Delete

SpecDelete == Init /\ [][NextDelete]_vars

\* building and inserting at most MaxMarkers markers, and reading the annotated range
NextAnnotated ==
  \/ Cardinality(Built) < MaxMarkers /\ Construct
  \/ Place
  \/ \E n \in NodeIds, as_text \in BOOLEAN, no_header \in BOOLEAN, clean \in BOOLEAN :
        Annotation_get_annotated(n, as_text, no_header, clean)

SpecAnnotated == Init /\ [][NextAnnotated]_vars

\* annotations built without a name, each against a paragraph of the document
\* body, and inserted into the body
NextNameless ==
  \/ \E nm \in {None, ""}, parent \in Paras :
        parent \in Range(bodyParas) /\ Annotation_init("text", nm, parent)
  \/ \E n \in NodeIds, p \in Paras, pos \in 1..MaxNodes :
        p \in Range(bodyParas) /\ Insert(n, p, pos)
  \/ \E p \in Paras : AppendParagraph(p)
  \/ \E n \in NodeIds : Annotation_delete(n)

SpecNameless == Init /\ [][NextNameless]_vars

\* one Note, built from every combination of arguments, then set and validated
InitNote ==
  /\ TreeInit
  /\ MutIdle
  /\ ret = NoRet
  /\ calls = <<>>
  /\ \E c \in ClassArgs, i \in IdArgs, cit \in CitationArgs, b \in BodyArgs :
        note = Note_init(c, i, cit, b)

NextNote ==
  \/ Note_check_validity
  \/ \E v \in ClassArgs : Note_set_note_class(v)
  \/ \E v \in IdArgs : Note_set_note_id(v)
  \/ \E v \in CitationArgs : Note_set_citation(v)
  \/ \E v \in BodyArgs : Note_set_note_body(v)

SpecNote == InitNote /\ [][NextNote]_vars

\* two mutators on a body of two paragraphs, with or without the lock
InitMutators ==
  /\ kind = [n \in NodeIds |-> "free"]
  /\ name = [n \in NodeIds |-> None]
  /\ kids = [n \in NodeIds |-> {}]
  /\ built_from = [n \in NodeIds |-> NoNode]
  /\ children = [p \in Paras |-> <<>>]
  /\ bodyParas = <<"P1", "P2">>
  /\ pc = [t \in Threads |-> "idle"]
  /\ mine = [t \in Threads |-> NoMine]
  /\ lock = 0
  /\ locking \in BOOLEAN
  /\ ret = NoRet
  /\ note = NoNote
  /\ calls = <<>>

NextMutators ==
  \/ \E t \in Threads : Acquire(t)
  \/ \E t \in Threads, p \in Paras : Allocate(t, p)
  \/ \E t \in Threads : InsertMine(t)
  \/ \E t \in Threads : Release(t)

SpecMutators == InitMutators /\ [][NextMutators]_vars

\* the allocator probed against every small tree: each of the first MaxStaged
\* markers is absent or sits in a paragraph, the staged paragraph is in the body or not
StagedIds == 1..MaxStaged
StagedShapes ==
  {[kind |-> "free", name |-> None, at |-> None]}
  \cup [kind : {"ann"}, name : {None, AutoName(1), AutoName(2)}, at : Paras]
  \cup [kind : {"end"}, name : {"note_a", AutoName(1), AutoName(2)}, at : Paras]

RECURSIVE Ascending(_)
Ascending(S) ==
  IF S = {} THEN <<>>
  ELSE LET m == CHOOSE x \in S : \A y \in S : x <= y IN <<m>> \o Ascending(S \ {m})

InitAlloc ==
  /\ \E shape \in [StagedIds -> StagedShapes] :
        /\ kind = [n \in NodeIds |-> IF n \in StagedIds THEN shape[n].kind ELSE "free"]
        /\ name = [n \in NodeIds |-> IF n \in StagedIds THEN shape[n].name ELSE None]
        /\ kids = [n \in NodeIds |->
                     IF n \in StagedIds /\ shape[n].kind = "ann" THEN {"content"} ELSE {}]
        /\ children = [p \in Paras |-> Ascending({n \in StagedIds : shape[n].at = p})]
  /\ built_from = [n \in NodeIds |-> NoNode]
  /\ bodyParas \in {<<"P1">>, <<"P1", "P2">>}
  /\ MutIdle
  /\ ret = NoRet
  /\ note = NoNote
  /\ calls = <<>>

NextAlloc == \E element \in ParentArgs : Allocate_call(element)

SpecAlloc == InitAlloc /\ [][NextAlloc]_vars

\* ------------------------------------------------------------- properties
\* what the properties below read of a state, stated on sets of markers
Attached == {n \in NodeIds : \E p \in Paras : n \in Range(children[p])}
InBody == {n \in NodeIds : \E p \in Range(bodyParas) : n \in Range(children[p])}
ParaOf(n) == CHOOSE p \in Paras : n \in Range(children[p])

\* the markers sharing the governing scope of an attached marker n
ScopeOf(n) ==
  IF n \in InBody THEN InBody ELSE {m \in Attached : ParaOf(m) = ParaOf(n)}

\* position of an attached marker in the document order of its scope
Pos(n) ==
  LET s == IF n \in InBody THEN ConcatParas(bodyParas) ELSE children[ParaOf(n)]
  IN CHOOSE i \in DOMAIN s : s[i] = n

\* the names an element given to the allocator shows: those of its body and its own
VisibleNames(element) ==
  IF element = None THEN {}
  ELSE {name[n] : n \in (IF element \in Range(bodyParas) THEN InBody ELSE {})
                         \cup Range(children[element])} \ {None}

Paired(s, e) ==
  /\ kind[s] = "ann" /\ kind[e] = "end" /\ built_from[e] = s
  /\ s \in Attached /\ e \in Attached /\ e \in ScopeOf(s)

\* C1 as stated: a start and the end built from it, attached in one governing
\* scope, locate each other.
C1_PairingSymmetry ==
  \A s \in NodeIds, e \in NodeIds :
    Paired(s, e) => Annotation_end(s) = e /\ AnnotationEnd_start(e) = s

\* C1 amended: a start and the end built from it, attached in one governing scope
\* that holds no other annotation and no other annotation-end of that name,
\* locate each other.
C1_PairingSymmetryUniqueName ==
  \A s \in NodeIds, e \in NodeIds :
    (/\ Paired(s, e)
     /\ \A m \in ScopeOf(s) \ {s, e} : kind[m] \in {"ann", "end"} => name[m] # name[s])
    => Annotation_end(s) = e /\ AnnotationEnd_start(e) = s

C1_Witness ==
  \E s \in NodeIds, e \in NodeIds :
    /\ Paired(s, e)
    /\ s \in InBody /\ ParaOf(s) # ParaOf(e)
    /\ \A m \in ScopeOf(s) \ {s, e} : name[m] # name[s]
    /\ ScopeOf(s) # {s, e}
    /\ Annotation_end(s) = e /\ AnnotationEnd_start(e) = s

C3_NoSharedName ==
  \A a \in InBody, b \in InBody :
    (a # b /\ kind[a] = "ann" /\ kind[b] = "ann") => name[a] # name[b]

\* C3 amended: an annotation built without a name gets a name that no marker its
\* parent shows (in the parent's document body or under the parent) carries at
\* that time: "__Fieldmark__lpod_1" when none is shown, "__Fieldmark__lpod_2" when
\* only "__Fieldmark__lpod_1" is.
C3_FreshAtCreation ==
  [][ (ret'.op = "Annotation" /\ ret'.node # NoNode /\ Falsy(ret'.arg)) =>
        /\ name'[ret'.node] \notin VisibleNames(ret'.parent)
        /\ VisibleNames(ret'.parent) = {} => name'[ret'.node] = AutoName(1)
        /\ VisibleNames(ret'.parent) = {AutoName(1)} => name'[ret'.node] = AutoName(2) ]_vars

C3_Witness ==
  /\ ret.op = "Annotation" /\ ret.node # NoNode /\ Falsy(ret.arg)
  /\ ret.parent # None /\ ret.parent \in Range(bodyParas)
  /\ name[ret.node] = AutoName(2)
  /\ \E a \in InBody : kind[a] = "ann" /\ name[a] = AutoName(1)

\* C4 as stated: consecutive calls against an unchanged used-name set return
\* pairwise distinct names, none of them used.
C4_PairwiseDistinct ==
  \A i \in DOMAIN calls, j \in DOMAIN calls :
    /\ calls[i].name \notin VisibleNames(calls[i].element)
    /\ (i < j /\ calls[i].element = calls[j].element) => calls[i].name # calls[j].name

\* C4 amended: consecutive calls against an unchanged used-name set each return
\* the same name, and that name is not used.
C4_UnusedAndRepeated ==
  \A i \in DOMAIN calls, j \in DOMAIN calls :
    /\ calls[i].name \notin VisibleNames(calls[i].element)
    /\ VisibleNames(calls[i].element) = VisibleNames(calls[j].element)
         => calls[i].name = calls[j].name

C4_Witness ==
  /\ Len(calls) = MaxCalls
  /\ \A i \in DOMAIN calls : calls[i].element = "P2" /\ calls[i].name = AutoName(2)
  /\ "P2" \notin Range(bodyParas)

\* C5: get_annotated on an attached annotation whose name no end of its governing
\* scope carries returns "" (as_text) or None, never calls get_between, and leaves
\* the tree as it is.
C5_MissingPartner ==
  [][ ret'.op = "get_annotated" =>
        /\ UNCHANGED treeVars
        /\ (/\ ret'.node \in Attached
            /\ \A e \in ScopeOf(ret'.node) : kind[e] = "end" => name[e] # name[ret'.node])
           => /\ ret'.called = <<>>
              /\ ret'.val = (IF ret'.as_text THEN "" ELSE None) ]_vars

C5_Witness ==
  /\ ret.op = "get_annotated" /\ ret.as_text /\ ret.val = "" /\ ret.called = <<>>
  /\ ret.node \in InBody /\ name[ret.node] # None
  /\ \E e \in InBody : kind[e] = "end" /\ Pos(e) > Pos(ret.node)

\* C6: check_validity fails exactly when the class is empty or not
\* 'footnote'/'endnote', or the id is empty, or the citation is empty.
C6_NoteValidity ==
  ret.op = "check_validity" =>
    ((ret.val # None) <=>
       \/ Falsy(note.note_class) \/ note.note_class \notin {"footnote", "endnote"}
       \/ Falsy(note.note_id) \/ Falsy(note.citation))

\* C7: an end built from an annotation takes the annotation's name, otherwise the
\* explicit name; construction fails exactly when neither yields a usable name,
\* and then builds nothing.
C7_EndConstruction ==
  ret.op = "AnnotationEnd" =>
    LET given == IF ret.from # NoNode THEN name[ret.from] ELSE None IN
    /\ (ret.val = "ValueError") <=> (Falsy(given) /\ Falsy(ret.arg))
    /\ ret.val = "ValueError" => ret.node = NoNode
    /\ ret.val # "ValueError" =>
         /\ kind[ret.node] = "end"
         /\ name[ret.node] = (IF ret.from # NoNode THEN given ELSE ret.arg)

\* C8: get_unique_office_name returns "__Fieldmark__lpod_k" for the least k >= 1
\* whose name neither the element's document body nor the element shows; a
\* detached element shows its own names only, and None shows none.
C8_LeastUnused ==
  \A i \in DOMAIN calls :
    LET U == VisibleNames(calls[i].element) IN
    /\ \E k \in 1..(Cardinality(U) + 1) :
         /\ calls[i].name = AutoName(k)
         /\ AutoName(k) \notin U
         /\ \A j \in 1..(k - 1) : AutoName(j) \in U
    /\ calls[i].element = None => calls[i].name = AutoName(1)
    /\ (calls[i].element # None /\ calls[i].element \notin Range(bodyParas)) =>
         \A j \in 1..MaxNodes :
           (AutoName(j) = calls[i].name) =>
              \A n \in Range(children[calls[i].element]) : name[n] # AutoName(j)

C8_Witness ==
  \E i \in DOMAIN calls :
    /\ calls[i].element = "P1" /\ calls[i].name = AutoName(1)
    /\ {name[n] : n \in Range(children["P1"])} = {AutoName(2)}
    /\ \E n \in Range(children["P2"]) : name[n] = AutoName(1)
    /\ "P2" \notin Range(bodyParas)

\* C9: with each mutator holding the document's lock over allocate-and-insert, no
\* two annotations of the body share a name; without the lock a state where two
\* do is reached (C9_RaceDuplicate).
C9_LockedNoDuplicate ==
  locking =>
    \A a \in InBody, b \in InBody :
      (a # b /\ kind[a] = "ann" /\ kind[b] = "ann") => name[a] # name[b]

C9_RaceDuplicate ==
  /\ ~locking
  /\ \E a \in InBody, b \in InBody :
       a # b /\ kind[a] = "ann" /\ kind[b] = "ann" /\ name[a] = name[b]

\* C10: an Annotation built with a non-empty explicit name carries that name.
C10_ExplicitNameKept ==
  (ret.op = "Annotation" /\ ret.node # NoNode /\ ~Falsy(ret.arg)) =>
    name[ret.node] = ret.arg
====
